---------------------------- MODULE Spec2Model ----------------------------
(***************************************************************************)
(* Model of scapula/helpers.py, class MatrixHelpers: the rigid             *)
(* registration engine (icp), its closed-form solver                       *)
(* (compute_best_fit_transformation), the brute-force closest-point query  *)
(* (nearest_neighbor) and the rigid inverse (transpose_homogenous_matrix). *)
(*                                                                         *)
(* Arrays are numpy arrays in row-major form: a (R, N) array is a sequence *)
(* of R rows, each a sequence of N numbers.  Python indices are 0-based;   *)
(* TLA+ sequences are 1-based, so a[i, j] of the source is a[i+1][j+1]     *)
(* here, while index VALUES the code returns (nearest_neighbor's indices)  *)
(* are kept 0-based.                                                       *)
(*                                                                         *)
(* Numbers are exact integers.  The inputs are drawn from integer clouds   *)
(* whose centroids are integral and whose images are taken under signed    *)
(* permutation matrices (the 48 orthogonal integer matrices), so that      *)
(* every value the code computes on them (means, products, the orthogonal  *)
(* factor u @ v_T of the SVD) is an integer and is computed exactly.       *)
(***************************************************************************)
EXTENDS Integers, Sequences, FiniteSets, TLC

VARIABLES
    fn,          \* the function of MatrixHelpers being (or last) called
    args,        \* its arguments, as the caller passed them
    ret,         \* what the call returned or raised
    pc,          \* icp: position in the call
    default_rt,  \* icp: the np.eye(4) object bound once as initial_rt's default
    caller_rt,   \* icp: the caller's array passed as initial_rt (when passed)
    rt,          \* icp: local rt (its value)
    rt_ref,      \* icp: the object local rt names: "default", "caller" or "local"
    prev_error,  \* icp: local prev_error
    iterations,  \* icp: loop bodies run so far in this call
    searches,    \* icp: nearest_neighbor calls made so far in this call
    calls        \* icp: calls made so far

vars == <<fn, args, ret, pc, default_rt, caller_rt, rt, rt_ref, prev_error,
          iterations, searches, calls>>

icp_vars == <<pc, default_rt, caller_rt, rt, rt_ref, prev_error, iterations,
              searches, calls>>

-----------------------------------------------------------------------------
(* numpy array algebra *)

RECURSIVE SumTo(_, _)
\* np.sum over indices 1..n of f
SumTo(f, n) == IF n = 0 THEN 0 ELSE f[n] + SumTo(f, n - 1)

Shape0(a) == Len(a)

Shape1(a) == IF Len(a) = 0 THEN 0 ELSE Len(a[1])

\* a @ b
MatMul(a, b) ==
    [i \in 1..Shape0(a) |->
        [j \in 1..Shape1(b) |->
            SumTo([k \in 1..Shape0(b) |-> a[i][k] * b[k][j]], Shape0(b))]]

\* a.T / a.transpose()
Transpose(a) ==
    [i \in 1..Shape1(a) |-> [j \in 1..Shape0(a) |-> a[j][i]]]

\* np.eye(n)
Eye(n) == [i \in 1..n |-> [j \in 1..n |-> IF i = j THEN 1 ELSE 0]]

\* a[:3, :]
Rows3(a) == [i \in 1..3 |-> a[i]]

\* m[:3, :3]
Block33(m) == [i \in 1..3 |-> [j \in 1..3 |-> m[i][j]]]

\* m[:3, 3] as a (3, 1) column
Col4(m) == [i \in 1..3 |-> <<m[i][4]>>]

\* np.concatenate([np.concatenate([r, t], axis=1), [[0, 0, 0, 1]]])
Homogenous(r, t) ==
    [i \in 1..4 |->
        IF i = 4 THEN <<0, 0, 0, 1>>
        ELSE [j \in 1..4 |-> IF j = 4 THEN t[i][1] ELSE r[i][j]]]

\* the greatest common divisor of two naturals, m > 0
RECURSIVE Gcd(_, _)
Gcd(m, n) == IF n = 0 THEN m ELSE Gcd(n, m % n)

\* total / n as np.mean divides: the integer when the division is exact, and
\* otherwise the fraction in lowest terms (1/2 for 4 / 8), which no integer
\* operator of the model takes
Quotient(total, n) ==
    IF total % n = 0
    THEN total \div n
    ELSE LET g == Gcd(n, IF total < 0 THEN -total ELSE total)
         IN  [numerator |-> total \div g, denominator |-> n \div g]

\* np.mean(a, axis=1, keepdims=True): a (R, 1) column
MeanAxis1(a) ==
    [i \in 1..Shape0(a) |-> <<Quotient(SumTo(a[i], Shape1(a)), Shape1(a))>>]

\* the mean of every row is an integer
MeanIsExact(a) ==
    /\ Shape1(a) > 0
    /\ \A i \in 1..Shape0(a) : SumTo(a[i], Shape1(a)) % Shape1(a) = 0

\* a - c for a (R, N) array and a (R, 1) column (numpy broadcasting)
SubColumn(a, c) ==
    [i \in 1..Shape0(a) |-> [j \in 1..Shape1(a) |-> a[i][j] - c[i][1]]]

\* a + c for a (R, N) array and a (R, 1) column
AddColumn(a, c) ==
    [i \in 1..Shape0(a) |-> [j \in 1..Shape1(a) |-> a[i][j] + c[i][1]]]

\* a[:, ::step] for step >= 1: columns 0, step, 2*step, ...
Stride(a, step) ==
    LET n == (Shape1(a) + step - 1) \div step
    IN  [i \in 1..Shape0(a) |-> [j \in 1..n |-> a[i][(j - 1) * step + 1]]]

\* a[:, indices] for 0-based indices
TakeColumns(a, indices) ==
    [i \in 1..Shape0(a) |-> [j \in 1..Len(indices) |-> a[i][indices[j] + 1]]]

Det3(m) ==
      m[1][1] * (m[2][2] * m[3][3] - m[2][3] * m[3][2])
    - m[1][2] * (m[2][1] * m[3][3] - m[2][3] * m[3][1])
    + m[1][3] * (m[2][1] * m[3][2] - m[2][2] * m[3][1])

-----------------------------------------------------------------------------
(* np.linalg.svd, as far as the code uses it: only the product u @ v_T *)

Permutations3 ==
    {p \in [1..3 -> 1..3] : \A i, j \in 1..3 : i # j => p[i] # p[j]}

\* the orthogonal matrices with integer entries (signed permutations)
Orthogonal3 ==
    {[i \in 1..3 |-> [j \in 1..3 |-> IF j = p[i] THEN s[i] ELSE 0]] :
        p \in Permutations3, s \in [1..3 -> {-1, 1}]}

Rotations3 == {q \in Orthogonal3 : Det3(q) = 1}

\* s is symmetric with every principal minor >= 0: s = v diag(sigma) v^T with
\* sigma >= 0, which is what np.linalg.svd's non-negative singular values give
IsSymPSD(s) ==
    /\ s = Transpose(s)
    /\ \A i \in 1..3 : s[i][i] >= 0
    /\ \A i, j \in 1..3 : i < j => s[i][i] * s[j][j] - s[i][j] * s[j][i] >= 0
    /\ Det3(s) >= 0

\* The values u @ v_T can take for u, _, v_T = np.linalg.svd(h): the orthogonal
\* q with q^T h = v diag(sigma) v^T.  One value when h has full rank; several
\* when h is rank-deficient (the SVD is then not unique and the one LAPACK
\* returns is unspecified).
SvdUVt(h) == {q \in Orthogonal3 : IsSymPSD(MatMul(Transpose(q), h))}

-----------------------------------------------------------------------------
(* what a call produces: a returned value or a raised exception *)

\* raised is "None" for a call that returned, else the exception's type
Return(v) == [raised |-> "None", value |-> v]

Raise(e) == [raised |-> e, value |-> <<>>]

\* no call has been made, or the caller has taken the last result
NoCall == [raised |-> "NoCall", value |-> <<>>]

\* the call has not ended yet
Pending == [raised |-> "Pending", value |-> <<>>]

-----------------------------------------------------------------------------
(* MatrixHelpers.transpose_homogenous_matrix *)

\* a plausible slip: the translation is negated but not rotated
transpose_homogenous_matrix_unrotated(homogenous_matrix) ==
    LET out33 == Transpose(Block33(homogenous_matrix))
    IN  [i \in 1..4 |->
            IF i = 4 THEN Eye(4)[4]
            ELSE [j \in 1..4 |->
                    IF j = 4 THEN -homogenous_matrix[i][4] ELSE out33[i][j]]]

transpose_homogenous_matrix(homogenous_matrix) ==
    LET out33 == Transpose(Block33(homogenous_matrix))
        \* -out[:3, :3] @ homogenous_matrix[:3, 3]
        out3 == MatMul([i \in 1..3 |-> [j \in 1..3 |-> -out33[i][j]]],
                       Col4(homogenous_matrix))
    IN  [i \in 1..4 |->
            IF i = 4 THEN Eye(4)[4]
            ELSE [j \in 1..4 |-> IF j = 4 THEN out3[i][1] ELSE out33[i][j]]]

-----------------------------------------------------------------------------
(* MatrixHelpers.subtract_vectors *)

\* numpy broadcasting of two 2-d shapes
Broadcastable(a, b) ==
    /\ Shape0(a) = Shape0(b) \/ Shape0(a) = 1 \/ Shape0(b) = 1
    /\ Shape1(a) = Shape1(b) \/ Shape1(a) = 1 \/ Shape1(b) = 1

Max2(x, y) == IF x >= y THEN x ELSE y

\* a - b with broadcasting (defined when Broadcastable(a, b))
BroadcastSub(a, b) ==
    [i \in 1..Max2(Shape0(a), Shape0(b)) |->
        [j \in 1..Max2(Shape1(a), Shape1(b)) |->
              a[IF Shape0(a) = 1 THEN 1 ELSE i][IF Shape1(a) = 1 THEN 1 ELSE j]
            - b[IF Shape0(b) = 1 THEN 1 ELSE i][IF Shape1(b) = 1 THEN 1 ELSE j]]]

subtract_vectors(a, b) ==
    IF ~Broadcastable(a, b)
    THEN Raise("ValueError")     \* operands could not be broadcast together
    ELSE LET out == BroadcastSub(a, b)
         IN  IF Shape0(out) < 4
             THEN Raise("IndexError")     \* out[3, :] is out of bounds
             ELSE Return([out EXCEPT ![4] = [j \in 1..Shape1(out) |-> 1]])

-----------------------------------------------------------------------------
(* MatrixHelpers.nearest_neighbor *)

\* np.sum((dst - src[:, i : i + 1]) ** 2, axis=0), for the 1-based column i
SquaredDistances(src, dst, i) ==
    [j \in 1..Shape1(dst) |->
        SumTo([r \in 1..Shape0(dst) |->
                 (dst[r][j] - src[r][i]) * (dst[r][j] - src[r][i])],
              Shape0(dst))]

RECURSIVE ArgMinFrom(_, _, _)
\* the scan behind np.argmin and np.min: best is the 1-based position of the
\* smallest entry among tp[1..j-1], replaced only by a strictly smaller one
ArgMinFrom(tp, j, best) ==
    IF j > Len(tp) THEN best
    ELSE ArgMinFrom(tp, j + 1, IF tp[j] < tp[best] THEN j ELSE best)

RECURSIVE ArgMinLastFrom(_, _, _)
\* a plausible slip: <= keeps the last of several equal minima
ArgMinLastFrom(tp, j, best) ==
    IF j > Len(tp) THEN best
    ELSE ArgMinLastFrom(tp, j + 1, IF tp[j] <= tp[best] THEN j ELSE best)

ArgMinLast(tp) == ArgMinLastFrom(tp, 2, 1) - 1

\* np.argmin(tp), 0-based, for a non-empty tp
ArgMin(tp) == ArgMinFrom(tp, 2, 1) - 1

\* np.min(tp), for a non-empty tp
Min(tp) == tp[ArgMinFrom(tp, 2, 1)]

\* a plausible slip: the reference set is validated before the loop
nearest_neighbor_validated(src, dst) ==
    IF Shape1(dst) = 0
    THEN Raise("ValueError")
    ELSE Return(
           [squared_distances |->
              [i \in 1..Shape1(src) |-> Min(SquaredDistances(src, dst, i))],
            indices |->
              [i \in 1..Shape1(src) |-> ArgMin(SquaredDistances(src, dst, i))]])

nearest_neighbor(src, dst) ==
    IF Shape1(src) > 0 /\ Shape1(dst) = 0
    THEN Raise("ValueError")     \* np.min of a zero-size array, at i = 0
    ELSE Return(
           [squared_distances |->
              [i \in 1..Shape1(src) |-> Min(SquaredDistances(src, dst, i))],
            indices |->
              [i \in 1..Shape1(src) |-> ArgMin(SquaredDistances(src, dst, i))]])

-----------------------------------------------------------------------------
(* MatrixHelpers.compute_best_fit_transformation *)

\* r = (u @ v_T).T
RotationOf(uvt) == Transpose(uvt)

\* the transformation built from one value of u @ v_T
BestFitWith(points1, points2, uvt) ==
    LET centroid1 == MeanAxis1(points1)
        centroid2 == MeanAxis1(points2)
        r == RotationOf(uvt)
        t == SubColumn(centroid2, MatMul(r, centroid1))
    IN  Homogenous(r, t)

\* h = centered1 @ centered2.T
Covariance(points1, points2) ==
    MatMul(SubColumn(points1, MeanAxis1(points1)),
           Transpose(SubColumn(points2, MeanAxis1(points2))))

\* a plausible slip: fewer than 3 correspondences are refused
compute_best_fit_transformation_min3(points1, points2) ==
    IF Shape1(points1) # Shape1(points2) \/ Shape1(points1) < 3
    THEN {Raise("ValueError")}
    ELSE {Return(BestFitWith(points1, points2, uvt)) :
            uvt \in SvdUVt(Covariance(points1, points2))}

\* Every outcome of compute_best_fit_transformation(points1, points2), for
\* non-empty point sets: one per value the SVD can give u @ v_T.
compute_best_fit_transformation(points1, points2) ==
    IF Shape1(points1) # Shape1(points2)
    THEN {Raise("ValueError")}     \* centered1 @ centered2.T: shapes mismatch
    ELSE {Return(BestFitWith(points1, points2, uvt)) :
            uvt \in SvdUVt(Covariance(points1, points2))}

-----------------------------------------------------------------------------
(* inputs *)

\* the sequences over s of length at most n
SeqsUpTo(s, n) == UNION {[1..k -> s] : k \in 0..n}

\* the (3, N) array whose columns are the points of the sequence ps
ColumnsArray(ps) == [i \in 1..3 |-> [j \in 1..Len(ps) |-> ps[j][i]]]

\* the (4, N) homogenous array of the (3, N) array a
WithOnes(a) == [i \in 1..4 |-> IF i = 4 THEN [j \in 1..Shape1(a) |-> 1] ELSE a[i]]

\* q @ a + t for a (3, N) array a, a 3x3 matrix q and a (3, 1) column t
Image(q, t, a) == AddColumn(MatMul(q, a), t)

Column(x, y, z) == <<<<x>>, <<y>>, <<z>>>>

MaxQuery == 2     \* nearest_neighbor: most points of src

MaxRef == 3       \* nearest_neighbor: most points of dst

\* (1,1,0) is at the same distance of the three others
NeighborPoints == {<<0, 0, 0>>, <<2, 0, 0>>, <<0, 2, 0>>, <<1, 1, 0>>}

\* a tetrahedron, centroid (2,2,2)
Tetrahedron == ColumnsArray(<<<<0, 0, 0>>, <<8, 0, 0>>, <<0, 8, 0>>, <<0, 0, 8>>>>)

\* a scalene tetrahedron, centroid at the origin
Scalene == ColumnsArray(<<<<3, 0, 0>>, <<-1, 2, 0>>, <<-1, -1, 1>>, <<-1, -1, -1>>>>)

\* three points (coplanar: rank 2), centroid (1,1,0)
Triangle == ColumnsArray(<<<<0, 0, 0>>, <<3, 0, 0>>, <<0, 3, 0>>>>)

\* two points (rank 1), centroid (1,0,0)
Segment == ColumnsArray(<<<<0, 0, 0>>, <<2, 0, 0>>>>)

\* one point (rank 0)
Single == ColumnsArray(<<<<1, 2, 0>>>>)

SolverClouds == {Tetrahedron, Scalene, Triangle, Segment, Single}

Shifts == {Column(0, 0, 0), Column(1, 2, 3)}

TranslationValues == {-1, 0, 2}

\* the rigid transforms: a rotation and a translation, bottom row [0, 0, 0, 1]
RigidTransforms ==
    {Homogenous(r, Column(x, y, z)) :
        r \in Rotations3, x \in TranslationValues,
        y \in TranslationValues, z \in TranslationValues}

-----------------------------------------------------------------------------
(* the state before any call *)

Infinity == [finite |-> FALSE, value |-> 0]     \* np.inf

Finite(x) == [finite |-> TRUE, value |-> x]

\* no icp call has been made: the default of initial_rt is the np.eye(4) the
\* def statement built
IcpInit ==
    /\ pc = "Idle"
    /\ default_rt = Eye(4)
    /\ caller_rt = Eye(4)
    /\ rt = Eye(4)
    /\ rt_ref = "local"
    /\ prev_error = Infinity
    /\ iterations = 0
    /\ searches = 0
    /\ calls = 0

Init ==
    /\ fn = "none"
    /\ args = <<>>
    /\ ret = NoCall
    /\ IcpInit

-----------------------------------------------------------------------------
(* calls of the pure functions: the arguments are drawn, the function applied *)

NearestNeighborInputs ==
    {[src |-> ColumnsArray(src), dst |-> ColumnsArray(dst)] :
        src \in SeqsUpTo(NeighborPoints, MaxQuery),
        dst \in SeqsUpTo(NeighborPoints, MaxRef)}

InitNearestNeighbor ==
    /\ fn = "none"
    /\ args \in NearestNeighborInputs
    /\ ret = NoCall
    /\ IcpInit

NearestNeighborCall ==
    /\ fn = "none"
    /\ fn' = "nearest_neighbor"
    /\ ret' = nearest_neighbor(args.src, args.dst)
    /\ UNCHANGED <<args, icp_vars>>

SpecNearestNeighbor == InitNearestNeighbor /\ [][NearestNeighborCall]_vars

\* points2 is the image of points1 under an orthogonal map and a shift, or
\* another cloud of another size
BestFitInputs ==
    {[points1 |-> points1, points2 |-> Image(q, t, points1)] :
        points1 \in SolverClouds, q \in Orthogonal3, t \in Shifts}
    \cup
    {pair \in [points1 : SolverClouds, points2 : SolverClouds] :
        Shape1(pair.points1) # Shape1(pair.points2)}

InitBestFit ==
    /\ fn = "none"
    /\ args \in BestFitInputs
    /\ ret = NoCall
    /\ IcpInit

BestFitCall ==
    /\ fn = "none"
    /\ fn' = "compute_best_fit_transformation"
    /\ ret' \in compute_best_fit_transformation(args.points1, args.points2)
    /\ UNCHANGED <<args, icp_vars>>

SpecBestFit == InitBestFit /\ [][BestFitCall]_vars

InitTranspose ==
    /\ fn = "none"
    /\ \E T \in RigidTransforms :
          args = [homogenous_matrix |-> T, original |-> T, applications |-> 0]
    /\ ret = NoCall
    /\ IcpInit

TransposeCall ==
    /\ fn = "none"
    /\ fn' = "transpose_homogenous_matrix"
    /\ args' = [args EXCEPT !.applications = 1]
    /\ ret' = Return(transpose_homogenous_matrix(args.homogenous_matrix))
    /\ UNCHANGED icp_vars

\* the result of the first call is transposed in turn
TransposeAgain ==
    /\ fn = "transpose_homogenous_matrix"
    /\ args.applications = 1
    /\ args' = [args EXCEPT !.homogenous_matrix = ret.value, !.applications = 2]
    /\ ret' = Return(transpose_homogenous_matrix(ret.value))
    /\ UNCHANGED <<fn, icp_vars>>

NextTranspose == TransposeCall \/ TransposeAgain

SpecTranspose == InitTranspose /\ [][NextTranspose]_vars

-----------------------------------------------------------------------------
(* MatrixHelpers.icp: the locals, as functions of the arguments *)

Omitted == <<>>     \* initial_rt not passed: the default is used

\* pts1_mean = np.concatenate([np.mean(points1[:3, :], axis=1, keepdims=True), [[1]]])
pts1_mean(points1) ==
    LET m == MeanAxis1(Rows3(points1))
    IN  [i \in 1..4 |-> IF i = 4 THEN <<1>> ELSE m[i]]

\* pts1_zeroed = MatrixHelpers.subtract_vectors(points1, pts1_mean), or its raise
pts1_zeroed(points1) == subtract_vectors(points1, pts1_mean(points1))

\* pts1_slice_jumps
pts1_slice_jumps(a) ==
    IF a.share_indices THEN 1 ELSE Shape1(a.points1) \div a.nb_points1_required

\* pts2_slice_jumps
pts2_slice_jumps(a) ==
    IF a.share_indices THEN 1 ELSE Shape1(a.points2) \div a.nb_points2_required

\* pts2 = points2[:3, ::pts2_slice_jumps]
pts2(a) == Stride(Rows3(a.points2), pts2_slice_jumps(a))

\* pts1 = (rt @ pts1_zeroed[:, ::pts1_slice_jumps])[:3, :]
pts1(a, current_rt) ==
    Rows3(MatMul(current_rt, Stride(pts1_zeroed(a.points1).value, pts1_slice_jumps(a))))

\* np.arange(n)
Arange(n) == [i \in 1..n |-> i - 1]

\* the correspondences of one pass of the loop, or the raise of the search
Correspondences(a, current_rt) ==
    IF a.share_indices
    THEN Return(Arange(Shape1(pts1(a, current_rt))))
    ELSE LET found == nearest_neighbor(pts1(a, current_rt), pts2(a))
         IN  IF found.raised # "None" THEN found ELSE Return(found.value.indices)

\* a plausible slip: only the rotation blocks are compared
squared_error_of_rotation(rt_step) ==
    SumTo([i \in 1..3 |->
             SumTo([j \in 1..3 |->
                      (Eye(3)[i][j] - rt_step[i][j]) * (Eye(3)[i][j] - rt_step[i][j])],
                   3)],
          3)

\* squared_error = np.sum((np.eye(4) - rt_step) ** 2)
squared_error(rt_step) ==
    SumTo([i \in 1..4 |->
             SumTo([j \in 1..4 |->
                      (Eye(4)[i][j] - rt_step[i][j]) * (Eye(4)[i][j] - rt_step[i][j])],
                   4)],
          4)

Abs(x) == IF x < 0 THEN -x ELSE x

\* a plausible slip: the first pass is compared with a previous error of 0
ConvergedFromZero(previous, current, tolerance) ==
    Abs((IF previous.finite THEN previous.value ELSE 0) - current) < tolerance

\* np.abs(prev_error - squared_error) < tolerance; prev_error may be np.inf
Converged(previous, current, tolerance) ==
    previous.finite /\ Abs(previous.value - current) < tolerance

\* a plausible slip: the centroid is taken off without being rotated
ReprojectedUnrotated(current_rt, mean) ==
    [i \in 1..4 |->
        IF i = 4 THEN current_rt[4]
        ELSE [j \in 1..4 |->
                IF j = 4 THEN current_rt[i][4] - mean[i][1]
                ELSE current_rt[i][j]]]

\* rt[:3, 3] -= (rt[:3, :3] @ pts1_mean[:3, :])[:3, 0]
Reprojected(current_rt, mean) ==
    LET shift == MatMul(Block33(current_rt), Rows3(mean))
    IN  [i \in 1..4 |->
            IF i = 4 THEN current_rt[4]
            ELSE [j \in 1..4 |->
                    IF j = 4 THEN current_rt[i][4] - shift[i][1]
                    ELSE current_rt[i][j]]]

\* a plausible change: the iteration count is returned too
IcpResultCounted(final_rt, with_error, points_error_squared) ==
    [rt |-> final_rt, iterations |-> iterations]

\* what icp returns: rt, or the pair (rt, points_error).  points_error is
\* np.sqrt(np.mean(points_error_squared)), kept as the sum and the count of
\* the squared distances it is the root mean of.
IcpResult(final_rt, with_error, points_error_squared) ==
    IF with_error
    THEN [rt |-> final_rt,
          points_error |->
              [sum_of_squares |-> SumTo(points_error_squared, Len(points_error_squared)),
               count |-> Len(points_error_squared)]]
    ELSE [rt |-> final_rt]

-----------------------------------------------------------------------------
(* MatrixHelpers.icp: the call, step by step *)

MaxIter == 3      \* most max_iterations of a call

MaxCalls == 2     \* most icp calls of a run

\* the value initial_rt has in a call with arguments a
InitialRt(a) == IF a.initial_rt = Omitted THEN default_rt ELSE a.initial_rt

\* lines 114-127: the centring of points1, the slice jumps, pts2, rt = initial_rt
IcpEnter(a) ==
    /\ fn' = "icp"
    /\ args' = a
    /\ calls' = calls + 1
    /\ caller_rt' = IF a.initial_rt = Omitted THEN caller_rt ELSE a.initial_rt
    /\ rt' = InitialRt(a)
    /\ rt_ref' = IF a.initial_rt = Omitted THEN "default" ELSE "caller"
    /\ prev_error' = Infinity
    /\ iterations' = 0
    /\ searches' = 0
    /\ IF pts1_zeroed(a.points1).raised # "None"
       THEN pc' = "Raised" /\ ret' = Raise(pts1_zeroed(a.points1).raised)
       ELSE IF pts2_slice_jumps(a) = 0
       THEN pc' = "Raised" /\ ret' = Raise("ValueError")   \* slice step cannot be zero
       ELSE pc' = "Iterating" /\ ret' = Pending
    /\ UNCHANGED default_rt

\* lines 129-145: one pass of the loop body
IcpIterate ==
    /\ pc = "Iterating"
    /\ iterations < args.max_iterations
    /\ iterations' = iterations + 1
    /\ IF pts1_slice_jumps(args) = 0
       THEN /\ pc' = "Raised"
            /\ ret' = Raise("ValueError")     \* slice step cannot be zero
            /\ UNCHANGED <<rt, rt_ref, prev_error, searches>>
       ELSE LET found == Correspondences(args, rt)
            IN  /\ searches' = IF args.share_indices THEN searches ELSE searches + 1
                /\ IF found.raised # "None"
                   THEN /\ pc' = "Raised"
                        /\ ret' = found
                        /\ UNCHANGED <<rt, rt_ref, prev_error>>
                   ELSE IF \E j \in 1..Len(found.value) :
                              found.value[j] >= Shape1(pts2(args))
                   THEN /\ pc' = "Raised"
                        /\ ret' = Raise("IndexError")     \* pts2[:, indices]
                        /\ UNCHANGED <<rt, rt_ref, prev_error>>
                   ELSE \E step \in compute_best_fit_transformation(
                                       pts1(args, rt),
                                       TakeColumns(pts2(args), found.value)) :
                           /\ rt' = MatMul(step.value, rt)
                           /\ rt_ref' = "local"
                           /\ IF Converged(prev_error, squared_error(step.value),
                                           args.tolerance)
                              THEN pc' = "Converged" /\ UNCHANGED prev_error
                              ELSE /\ pc' = "Iterating"
                                   /\ prev_error' = Finite(squared_error(step.value))
                           /\ ret' = Pending
    /\ UNCHANGED <<fn, args, default_rt, caller_rt, calls>>

\* line 128: range(max_iterations) is exhausted
IcpExhaust ==
    /\ pc = "Iterating"
    /\ iterations = args.max_iterations
    /\ pc' = "MaxIterationsReached"
    /\ UNCHANGED <<fn, args, ret, default_rt, caller_rt, rt, rt_ref, prev_error,
                   iterations, searches, calls>>

\* lines 147-157: the residual pass, the reprojection in place, the return
IcpFinish ==
    /\ pc \in {"Converged", "MaxIterationsReached"}
    /\ ret = Pending
    /\ IF args.return_points_error /\ pts1_slice_jumps(args) = 0
       THEN /\ ret' = Raise("ValueError")     \* slice step cannot be zero
            /\ UNCHANGED <<rt, default_rt, caller_rt, searches>>
       ELSE LET found == IF args.return_points_error
                         THEN nearest_neighbor(pts1(args, rt), pts2(args))
                         ELSE Return(<<>>)
                final == Reprojected(rt, pts1_mean(args.points1))
            IN  /\ searches' = IF args.return_points_error THEN searches + 1
                               ELSE searches
                /\ IF found.raised # "None"
                   THEN ret' = found /\ UNCHANGED <<rt, default_rt, caller_rt>>
                   ELSE /\ rt' = final
                        /\ default_rt' = IF rt_ref = "default" THEN final ELSE default_rt
                        /\ caller_rt' = IF rt_ref = "caller" THEN final ELSE caller_rt
                        /\ ret' = Return(IcpResult(
                                     final, args.return_points_error,
                                     IF args.return_points_error
                                     THEN found.value.squared_distances ELSE <<>>))
    /\ UNCHANGED <<fn, args, pc, rt_ref, prev_error, iterations, calls>>

\* the caller takes the result, or the exception, and drops the arguments
IcpLeave ==
    /\ fn = "icp"
    /\ ret.raised # "Pending"
    /\ fn' = "none"
    /\ args' = <<>>
    /\ ret' = NoCall
    /\ pc' = "Idle"
    /\ caller_rt' = Eye(4)
    /\ rt' = Eye(4)
    /\ rt_ref' = "local"
    /\ prev_error' = Infinity
    /\ iterations' = 0
    /\ searches' = 0
    /\ UNCHANGED <<default_rt, calls>>

-----------------------------------------------------------------------------
(* icp calls *)

RotationZ90 == <<<<0, -1, 0>>, <<1, 0, 0>>, <<0, 0, 1>>>>

MirrorX == <<<<-1, 0, 0>>, <<0, 1, 0>>, <<0, 0, 1>>>>

\* the 8 corners of the unit cube, as a (3, 8) array
UnitCube ==
    ColumnsArray(<<<<0, 0, 0>>, <<1, 0, 0>>, <<0, 1, 0>>, <<1, 1, 0>>,
                   <<0, 0, 1>>, <<1, 0, 1>>, <<0, 1, 1>>, <<1, 1, 1>>>>)

\* the defaults of icp's signature (lines 87-93); the tolerance is counted in
\* units of the convergence metric, an integer here: 1 stands for every
\* tolerance in (0, 1], the default 1e-6 among them
DefaultMaxIterations == 100

DefaultNbPointsRequired == 3000

DefaultTolerance == 1

IcpClouds == {WithOnes(Tetrahedron), WithOnes(Scalene)}

IcpTargets ==
    {<<Eye(3), Column(0, 0, 0)>>,
     <<RotationZ90, Column(1, 2, 3)>>,
     <<MirrorX, Column(0, 0, 0)>>}

\* clouds that share their indices: points2 is points1 itself, its image under
\* a rotation and a shift, or its mirror image; initial_rt is omitted or passed
SharedInputs ==
    {[points1 |-> points1,
      points2 |-> WithOnes(Image(target[1], target[2], Rows3(points1))),
      max_iterations |-> max_iterations,
      tolerance |-> tolerance,
      nb_points1_required |-> DefaultNbPointsRequired,
      nb_points2_required |-> DefaultNbPointsRequired,
      share_indices |-> TRUE,
      initial_rt |-> initial_rt,
      return_points_error |-> return_points_error] :
        points1 \in IcpClouds,
        target \in IcpTargets,
        max_iterations \in 0..MaxIter,
        tolerance \in {0, DefaultTolerance},
        initial_rt \in {Omitted, Eye(4)},
        return_points_error \in BOOLEAN}

\* as above, from an initial guess that is the rotation of the target
GuessedInputs ==
    {[points1 |-> points1,
      points2 |-> WithOnes(Image(RotationZ90, Column(1, 2, 3), Rows3(points1))),
      max_iterations |-> max_iterations,
      tolerance |-> DefaultTolerance,
      nb_points1_required |-> DefaultNbPointsRequired,
      nb_points2_required |-> DefaultNbPointsRequired,
      share_indices |-> TRUE,
      initial_rt |-> Homogenous(RotationZ90, Column(0, 0, 0)),
      return_points_error |-> FALSE] :
        points1 \in IcpClouds,
        max_iterations \in 0..MaxIter}

\* clouds searched for their nearest neighbours: points2 is points1 itself or
\* shifted; the numbers of points required give slice jumps of 1 and of 0
SearchInputs ==
    {[points1 |-> points1,
      points2 |-> WithOnes(Image(Eye(3), shift, Rows3(points1))),
      max_iterations |-> max_iterations,
      tolerance |-> DefaultTolerance,
      nb_points1_required |-> required[1],
      nb_points2_required |-> required[2],
      share_indices |-> FALSE,
      initial_rt |-> Eye(4),
      return_points_error |-> return_points_error] :
        points1 \in IcpClouds,
        shift \in {Column(0, 0, 0), Column(1, 0, 0)},
        max_iterations \in 0..MaxIter,
        required \in {<<4, 4>>, <<5, 4>>, <<4, 5>>},
        return_points_error \in BOOLEAN}

\* the tetrahedron at the even columns and its image under the point
\* reflection through its centroid at the odd ones: 8 points
Interleaved ==
    ColumnsArray(<<<<0, 0, 0>>, <<4, 4, 4>>, <<8, 0, 0>>, <<-4, 4, 4>>,
                   <<0, 8, 0>>, <<4, -4, 4>>, <<0, 0, 8>>, <<4, 4, -4>>>>)

\* a cloud of 8 points searched for its nearest neighbours, with numbers of
\* points required that give slice jumps of 2, of 1 and of 0
SubsampledInputs ==
    {[points1 |-> WithOnes(Interleaved),
      points2 |-> WithOnes(Image(Eye(3), shift, Interleaved)),
      max_iterations |-> max_iterations,
      tolerance |-> DefaultTolerance,
      nb_points1_required |-> required[1],
      nb_points2_required |-> required[2],
      share_indices |-> FALSE,
      initial_rt |-> Eye(4),
      return_points_error |-> FALSE] :
        shift \in {Column(0, 0, 0), Column(1, 0, 0)},
        max_iterations \in {1, MaxIter},
        required \in {<<4, 4>>, <<3, 4>>, <<4, 8>>, <<9, 4>>, <<4, 9>>}}

\* the cube scenario: icp(points1, points2, share_indices=True) on (3, 8) arrays
CubeInput ==
    [points1 |-> UnitCube,
     points2 |-> Image(RotationZ90, Column(1, 2, 3), UnitCube),
     max_iterations |-> DefaultMaxIterations,
     tolerance |-> DefaultTolerance,
     nb_points1_required |-> DefaultNbPointsRequired,
     nb_points2_required |-> DefaultNbPointsRequired,
     share_indices |-> TRUE,
     initial_rt |-> Omitted,
     return_points_error |-> FALSE]

\* a tolerance above the metric of the first pass of a self-alignment of the
\* tetrahedron (the squared norm of its centroid, 12): it stands for a
\* tolerance that a small non-zero first step stays under
LooseTolerance == 13

\* icp(points1, points1, max_iterations, tolerance, share_indices=True)
SelfAlignmentOf(points1, max_iterations, tolerance) ==
    [points1 |-> points1,
     points2 |-> points1,
     max_iterations |-> max_iterations,
     tolerance |-> tolerance,
     nb_points1_required |-> DefaultNbPointsRequired,
     nb_points2_required |-> DefaultNbPointsRequired,
     share_indices |-> TRUE,
     initial_rt |-> Omitted,
     return_points_error |-> FALSE]

Tolerances == {0, DefaultTolerance, LooseTolerance}

\* a cloud and itself, indices shared, initial_rt omitted: the two tetrahedra
\* and the unit cube as a (3, 8) array, and the triangle (coplanar) with a
\* loop that runs
SelfInputs ==
    {SelfAlignmentOf(points1, max_iterations, tolerance) :
        points1 \in IcpClouds \cup {UnitCube},
        max_iterations \in 0..MaxIter,
        tolerance \in Tolerances}
    \cup
    {SelfAlignmentOf(WithOnes(Triangle), max_iterations, tolerance) :
        max_iterations \in 1..MaxIter,
        tolerance \in Tolerances}

IcpInputs ==
    SharedInputs \cup GuessedInputs \cup SearchInputs \cup SubsampledInputs
        \cup SelfInputs \cup {CubeInput}

IcpCall ==
    /\ pc = "Idle"
    /\ calls < MaxCalls
    /\ \E a \in IcpInputs : IcpEnter(a)

Next == IcpCall \/ IcpIterate \/ IcpExhaust \/ IcpFinish \/ IcpLeave

Spec == Init /\ [][Next]_vars

\* the model follows the code exactly: every mean it takes is integral and the
\* SVD of every covariance has its orthogonal factor among the integer ones
ModelIsExact ==
    (pc = "Iterating" /\ iterations < args.max_iterations
        /\ pts1_slice_jumps(args) # 0
        /\ Correspondences(args, rt).raised = "None") =>
        LET chosen == TakeColumns(pts2(args), Correspondences(args, rt).value)
        IN  /\ MeanIsExact(pts1(args, rt))
            /\ MeanIsExact(chosen)
            /\ SvdUVt(Covariance(pts1(args, rt), chosen)) # {}

-----------------------------------------------------------------------------
(* MatrixHelpers.angle_between_rotations and MatrixHelpers.average_matrices *)
(*                                                                         *)
(* The numbers of this section are counted in units of 1/Unit: the entry x *)
(* of a transform is the integer Unit * x.  A rotation held in floating    *)
(* point is orthonormal only up to the resolution of its numbers; here the *)
(* resolution is one unit.                                                 *)

Unit == 8

\* np.trace(m)
Trace(m) == SumTo([i \in 1..Shape0(m) |-> m[i][i]], Shape0(m))

\* the array a of plain numbers, in units
InUnits(a) == [i \in 1..Shape0(a) |-> [j \in 1..Shape1(a) |-> Unit * a[i][j]]]

\* out = np.eye(4); out[:3, :3] = r; out[:3, 3] = t, for r and t in units
HomogenousInUnits(r, t) ==
    [i \in 1..4 |->
        IF i = 4 THEN InUnits(Eye(4))[4]
        ELSE [j \in 1..4 |-> IF j = 4 THEN t[i][1] ELSE r[i][j]]]

\* np.arccos(twice / (2 * one)): nan outside of [-1, 1] (numpy warns and
\* returns nan; nothing clamps the argument).  arccos is one-to-one: the
\* angle is kept as twice its cosine, counted in one-ths.
ArcCos(twice, one) ==
    IF twice > 2 * one \/ twice < -2 * one
    THEN [nan |-> TRUE, twice_cosine |-> 0]
    ELSE [nan |-> FALSE, twice_cosine |-> twice]

\* np.arccos((np.trace(rotation1[:3, :3].T @ rotation2[:3, :3]) - 1) / 2),
\* for rotation1 and rotation2 in units (their product is in Unit * Unit-ths)
angle_between_rotations(rotation1, rotation2) ==
    ArcCos(Trace(MatMul(Transpose(Block33(rotation1)), Block33(rotation2)))
               - Unit * Unit,
           Unit * Unit)

\* the sum over k of the (R, C) arrays ms[k]
ArraySum(ms, R, C) ==
    [i \in 1..R |-> [j \in 1..C |-> SumTo([k \in 1..Len(ms) |-> ms[k][i][j]], Len(ms))]]

\* np.std(xs), up to its being nan, 0 or positive: 0 when the xs are all equal
Std(xs) ==
    [nan |-> FALSE, zero |-> \A j, k \in 1..Len(xs) : xs[j] = xs[k]]

\* np.std(error_angles): nan as soon as one angle is
StdOfAngles(error_angles) ==
    IF \E k \in 1..Len(error_angles) : error_angles[k].nan
    THEN [nan |-> TRUE, zero |-> FALSE]
    ELSE Std([k \in 1..Len(error_angles) |-> error_angles[k].twice_cosine])

\* np.linalg.norm(translations, axis=0), each norm kept as its square
Norms(translations) ==
    [k \in 1..Len(translations) |->
          translations[k][1][1] * translations[k][1][1]
        + translations[k][2][1] * translations[k][2][1]
        + translations[k][3][1] * translations[k][3][1]]

\* rotations[:, :, k] for every k: the double transposition of line 223 gives
\* back mat[:3, :3]
Rotations(matrices) == [k \in 1..Len(matrices) |-> Block33(matrices[k])]

\* translations[:, k] for every k, as (3, 1) columns
Translations(matrices) == [k \in 1..Len(matrices) |-> Col4(matrices[k])]

\* lines 226-250, for the stack rotations and the columns translations of a
\* non-empty collection.  u @ v_T is the same for rotations_mean and for its
\* positive multiples, so the sum of the rotations is decomposed.
AverageOf(rotations, translations, compute_std) ==
    LET n == Len(rotations)
        average_translation ==
            [i \in 1..3 |-> <<ArraySum(translations, 3, 1)[i][1] \div n>>]
    IN  {Return(
           IF ~compute_std
           THEN [average |-> HomogenousInUnits(InUnits(uvt), average_translation)]
           ELSE [average |-> HomogenousInUnits(InUnits(uvt), average_translation),
                 std |-> <<StdOfAngles(
                              [k \in 1..n |->
                                  angle_between_rotations(rotations[k],
                                                          InUnits(uvt))]),
                           Std(Norms(translations))>>]) :
            uvt \in SvdUVt(ArraySum(rotations, 3, 3))}

\* a plausible slip: an empty collection is given the identity
average_matrices_or_identity(matrices, compute_std) ==
    IF Len(matrices) = 0
    THEN {Return([average |-> InUnits(Eye(4))])}
    ELSE AverageOf(Rotations(matrices), Translations(matrices), compute_std)

\* Every outcome of average_matrices(matrices, compute_std).  For an empty
\* list, rotations is np.array([]).T of shape (0,) and np.mean(rotations,
\* axis=2) raises AxisError (axis 2 is out of bounds), before compute_std is
\* looked at.
average_matrices(matrices, compute_std) ==
    IF Len(matrices) = 0
    THEN {Raise("AxisError")}
    ELSE AverageOf(Rotations(matrices), Translations(matrices), compute_std)

MaxCopies == 3     \* average_matrices: most copies of a transform

AveragedTranslations == {Column(0, 0, 0), Column(0, -2, 0), Column(3, 0, 4)}

\* the transform of rotation r and translation t, as it is held: the entries
\* of the rotation block are off by excess units in Unit
Held(r, excess, t) ==
    HomogenousInUnits(
        [i \in 1..3 |-> [j \in 1..3 |-> (Unit + excess) * r[i][j]]], InUnits(t))

\* the rigid transforms, held exactly or up to one unit
AveragedTransforms ==
    {Held(r, excess, t) :
        r \in Rotations3, excess \in {-1, 0, 1}, t \in AveragedTranslations}

HalfTurnX == <<<<1, 0, 0>>, <<0, -1, 0>>, <<0, 0, -1>>>>

\* the empty collection, 1 to MaxCopies copies of a transform, and two copies
\* of a rotation with a third transform half a turn and 3 away
AverageInputs ==
    {[matrices |-> matrices, compute_std |-> compute_std] :
        matrices \in
            {<<>>}
            \cup {[k \in 1..n |-> T] : T \in AveragedTransforms, n \in 1..MaxCopies}
            \cup {<<Held(r, 0, Column(0, 0, 0)), Held(r, 0, Column(0, 0, 0)),
                    Held(MatMul(r, HalfTurnX), 0, MatMul(r, Column(3, 0, 0)))>> :
                      r \in Rotations3},
        compute_std \in BOOLEAN}

InitAverage ==
    /\ fn = "none"
    /\ args \in AverageInputs
    /\ ret = NoCall
    /\ IcpInit

AverageCall ==
    /\ fn = "none"
    /\ fn' = "average_matrices"
    /\ ret' \in average_matrices(args.matrices, args.compute_std)
    /\ UNCHANGED <<args, icp_vars>>

SpecAverage == InitAverage /\ [][AverageCall]_vars

\* the model follows the code exactly on these collections: the sum of the
\* rotations has full rank and its orthogonal factor is an integer matrix,
\* the mean translation is a whole number of units
AveragingIsExact ==
    (fn = "none" /\ Len(args.matrices) > 0) =>
        /\ Det3(ArraySum(Rotations(args.matrices), 3, 3)) # 0
        /\ Cardinality(SvdUVt(ArraySum(Rotations(args.matrices), 3, 3))) = 1
        /\ \A i \in 1..3 :
              ArraySum(Translations(args.matrices), 3, 1)[i][1]
                  % Len(args.matrices) = 0

-----------------------------------------------------------------------------
(* MatrixHelpers.from_euler *)
(*                                                                         *)
(* Angles are counted in quarter turns, whose cosines and sines are whole  *)
(* numbers.                                                                *)

\* np.cos(angle)
Cos(angle) == CASE angle % 4 = 0 -> 1 [] angle % 4 = 2 -> -1 [] OTHER -> 0

\* np.sin(angle)
Sin(angle) == CASE angle % 4 = 1 -> 1 [] angle % 4 = 3 -> -1 [] OTHER -> 0

\* lines 174-197: the rotation about one axis
AxisRotation(axis, angle) ==
    CASE axis = "x" ->
           <<<<1, 0, 0>>,
             <<0, Cos(angle), -Sin(angle)>>,
             <<0, Sin(angle), Cos(angle)>>>>
      [] axis = "y" ->
           <<<<Cos(angle), 0, Sin(angle)>>,
             <<0, 1, 0>>,
             <<-Sin(angle), 0, Cos(angle)>>>>
      [] axis = "z" ->
           <<<<Cos(angle), -Sin(angle), 0>>,
             <<Sin(angle), Cos(angle), 0>>,
             <<0, 0, 1>>>>

\* the local rotation before the loop has assigned it
Unbound == <<>>

RECURSIVE EulerLoop(_, _, _)
\* the locals out and rotation after k passes of the loop of lines 173-198
EulerLoop(angles, sequence, k) ==
    IF k = 0
    THEN [out |-> Eye(3), rotation |-> Unbound]
    ELSE LET before == EulerLoop(angles, sequence, k - 1)
             rotation == AxisRotation(sequence[k], angles[k])
         IN  [out |-> MatMul(before.out, rotation), rotation |-> rotation]

\* zip(angles, sequence) stops at the shorter of the two
ZipLen(angles, sequence) ==
    IF Len(angles) <= Len(sequence) THEN Len(angles) ELSE Len(sequence)

from_euler(angles, sequence, homogenous) ==
    LET after == EulerLoop(angles, sequence, ZipLen(angles, sequence))
    IN  IF ~homogenous
        THEN Return(after.out)
        ELSE IF after.rotation = Unbound
        THEN Raise("UnboundLocalError")     \* rotation, at line 202
        ELSE Return(Homogenous(after.rotation, Column(0, 0, 0)))

MaxAxes == 3     \* from_euler: most axes of a sequence

EulerInputs ==
    {[angles |-> angles, sequence |-> sequence, homogenous |-> homogenous] :
        angles \in [1..3 -> 0..3],
        sequence \in SeqsUpTo({"x", "y", "z"}, MaxAxes),
        homogenous \in BOOLEAN}

InitEuler ==
    /\ fn = "none"
    /\ args \in EulerInputs
    /\ ret = NoCall
    /\ IcpInit

EulerCall ==
    /\ fn = "none"
    /\ fn' = "from_euler"
    /\ ret' = from_euler(args.angles, args.sequence, args.homogenous)
    /\ UNCHANGED <<args, icp_vars>>

SpecEuler == InitEuler /\ [][EulerCall]_vars

-----------------------------------------------------------------------------
(* properties of nearest_neighbor *)

\* the squared Euclidean distance of column i of src to column j of dst
SqDist(src, i, dst, j) ==
      (src[1][i] - dst[1][j]) * (src[1][i] - dst[1][j])
    + (src[2][i] - dst[2][j]) * (src[2][i] - dst[2][j])
    + (src[3][i] - dst[3][j]) * (src[3][i] - dst[3][j])

NearestNeighborCalled == fn = "nearest_neighbor"

\* C5: for a non-empty reference set dst, nearest_neighbor returns, for every
\* query point i, the squared distance to its closest reference point and the
\* index of that point, the smallest index among the closest ones.
C5_ClosestAndFirst ==
    (NearestNeighborCalled /\ Shape1(args.dst) > 0) =>
        /\ ret.raised = "None"
        /\ Len(ret.value.squared_distances) = Shape1(args.src)
        /\ Len(ret.value.indices) = Shape1(args.src)
        /\ \A i \in 1..Shape1(args.src) :
              LET d == ret.value.squared_distances[i]
                  k == ret.value.indices[i] + 1
              IN  /\ k \in 1..Shape1(args.dst)
                  /\ d = SqDist(args.src, i, args.dst, k)
                  /\ \A j \in 1..Shape1(args.dst) :
                        /\ SqDist(args.src, i, args.dst, j) >= d
                        /\ j < k => SqDist(args.src, i, args.dst, j) > d

\* a query point with several closest reference points has been answered
C5_Witness ==
    /\ NearestNeighborCalled
    /\ ret.raised = "None"
    /\ \E i \in 1..Shape1(args.src) :
          \E j \in 1..Shape1(args.dst) :
             /\ j > ret.value.indices[i] + 1
             /\ SqDist(args.src, i, args.dst, j) = ret.value.squared_distances[i]
             /\ \E far \in 1..Shape1(args.dst) :
                   SqDist(args.src, i, args.dst, far) > ret.value.squared_distances[i]

\* C6 as stated: a query against an empty reference set fails for every query
\* set, the empty one included, and never returns a result.
C6_EmptyReferenceAlwaysFails ==
    (NearestNeighborCalled /\ Shape1(args.dst) = 0) => ret.raised # "None"

\* C6 amended: a query against an empty reference set raises (ValueError, from
\* np.min of a zero-size array) when the query set is not empty, and returns
\* empty distances and indices when the query set is empty.
C6_EmptyReference ==
    (NearestNeighborCalled /\ Shape1(args.dst) = 0) =>
        IF Shape1(args.src) > 0
        THEN ret = Raise("ValueError")
        ELSE ret = Return([squared_distances |-> <<>>, indices |-> <<>>])

\* both cases of an empty reference set happen: here the empty query
C6_Witness ==
    /\ NearestNeighborCalled
    /\ Shape1(args.dst) = 0
    /\ Shape1(args.src) = 0
    /\ ret.raised = "None"

-----------------------------------------------------------------------------
(* properties of compute_best_fit_transformation *)

BestFitCalled == fn = "compute_best_fit_transformation"

IsTransform(m) ==
    /\ Shape0(m) = 4
    /\ Shape1(m) = 4
    /\ m[4] = <<0, 0, 0, 1>>

NonDegenerate(points1, points2) ==
    /\ Shape1(points1) = Shape1(points2)
    /\ Shape1(points1) >= 3
    /\ Det3(Covariance(points1, points2)) # 0

\* C8: for every valid non-degenerate input, mirror images included, the
\* rotation block of the solver's transform is orthonormal with determinant +1.
C8_ProperRotation ==
    (BestFitCalled /\ NonDegenerate(args.points1, args.points2)) =>
        /\ ret.raised = "None"
        /\ MatMul(Transpose(Block33(ret.value)), Block33(ret.value)) = Eye(3)
        /\ Det3(Block33(ret.value)) = 1

-----------------------------------------------------------------------------
(* properties of transpose_homogenous_matrix *)

TransposeCalled == fn = "transpose_homogenous_matrix"

\* C9: for a rigid transform T = (R, t), transpose_homogenous_matrix returns
\* the transform (R^T, -R^T t), and applied to its own result it returns T.
C9_InverseRoundTrip ==
    TransposeCalled =>
        /\ ret.raised = "None"
        /\ IsTransform(ret.value)
        /\ \A i, j \in 1..3 : ret.value[i][j] = args.homogenous_matrix[j][i]
        /\ \A i \in 1..3 :
              ret.value[i][4] =
                  - (  args.homogenous_matrix[1][i] * args.homogenous_matrix[1][4]
                     + args.homogenous_matrix[2][i] * args.homogenous_matrix[2][4]
                     + args.homogenous_matrix[3][i] * args.homogenous_matrix[3][4])
        /\ args.applications = 2 => ret.value = args.original

\* a transform with a rotation and a translation has been transposed twice
C9_Witness ==
    /\ TransposeCalled
    /\ args.applications = 2
    /\ Block33(args.original) # Eye(3)
    /\ Block33(args.original) # Transpose(Block33(args.original))
    /\ Col4(args.original) = Column(2, -1, 2)
    /\ args.homogenous_matrix # args.original
    /\ ret.value = args.original

-----------------------------------------------------------------------------
(* properties of icp *)

IcpCalled == fn = "icp"

\* the call has returned or raised
IcpEnded == IcpCalled /\ ret.raised # "Pending"

IcpReturned == IcpCalled /\ ret.raised = "None"

\* C1: for every input and every max_iterations >= 0, an icp call runs at most
\* max_iterations passes of its loop and ends Converged or
\* MaxIterationsReached, returning a transform and no error in both.
C1_EndsConvergedOrExhausted ==
    IcpCalled =>
        /\ iterations <= args.max_iterations
        /\ IcpEnded =>
              /\ pc \in {"Converged", "MaxIterationsReached"}
              /\ ret.raised = "None"
              /\ IsTransform(ret.value.rt)

\* points2 is points1, the indices are shared, initial_rt is omitted
SelfAlignment ==
    /\ IcpCalled
    /\ args.share_indices
    /\ args.points2 = args.points1
    /\ args.initial_rt = Omitted

\* C2 as stated: aligning a cloud to itself reaches Converged after exactly 1
\* iteration and returns the identity.
C2_SelfConvergesInOne ==
    (SelfAlignment /\ IcpEnded) =>
        /\ pc = "Converged"
        /\ iterations = 1
        /\ ret.raised = "None"
        /\ ret.value.rt = Eye(4)

\* the points of the cloud span the space: the covariance of the cloud with
\* itself has full rank, so the best fit has one rotation only
NonCoplanar(points) == NonDegenerate(Rows3(points), Rows3(points))

\* the squared distance between the centroid of points1 and the translation
\* of the default initial transform: the squared norm of the centroid as long
\* as the default is the identity it was created as
FirstMetric ==
    LET c == Rows3(pts1_mean(args.points1))
        d == Col4(default_rt)
    IN  SumTo([i \in 1..3 |-> (c[i][1] - d[i][1]) * (c[i][1] - d[i][1])], 3)

\* C2 amended: aligning a cloud to itself never reaches Converged after 1
\* pass, the first pass having no previous metric; a (3, N) cloud raises before
\* any pass.  For a non-coplanar (4, N) cloud the call reaches Converged after
\* exactly 2 passes when the metric of the first pass is below the tolerance
\* (and max_iterations >= 2), after exactly 3 passes when the tolerance is
\* positive and not above that metric (and max_iterations >= 3), and otherwise
\* ends MaxIterationsReached after max_iterations passes; once a pass has run
\* the returned transform is the identity.
C2_SelfConvergesInTwoOrThree ==
    SelfAlignment =>
        /\ pc = "Converged" => iterations >= 2
        /\ Shape0(args.points1) = 3 => (ret.raised = "ValueError" /\ iterations = 0)
        /\ (IcpEnded /\ Shape0(args.points1) = 4 /\ NonCoplanar(args.points1)) =>
              /\ ret.raised = "None"
              /\ iterations >= 1 => ret.value.rt = Eye(4)
              /\ IF args.max_iterations >= 2 /\ FirstMetric < args.tolerance
                 THEN pc = "Converged" /\ iterations = 2
                 ELSE IF args.max_iterations >= 3 /\ args.tolerance > 0
                 THEN pc = "Converged" /\ iterations = 3
                 ELSE /\ pc = "MaxIterationsReached"
                      /\ iterations = args.max_iterations

\* a cloud whose centroid is not the origin has been aligned to itself from
\* the identity, under a tolerance above the metric of the first pass: the
\* call converged in 2 passes and returned the identity
C2_Witness ==
    /\ SelfAlignment
    /\ IcpReturned
    /\ NonCoplanar(args.points1)
    /\ default_rt = Eye(4)
    /\ FirstMetric > 0
    /\ FirstMetric < args.tolerance
    /\ pc = "Converged"
    /\ iterations = 2
    /\ ret.value.rt = Eye(4)

\* a coplanar cloud aligned to itself: the rotation of the best fit is any of
\* the orthogonal factors the SVD may return, the mirror through the plane of
\* the cloud among them, and the transform returned is then not the identity
CoplanarSelfAlignmentMirrored ==
    /\ SelfAlignment
    /\ IcpReturned
    /\ ~NonCoplanar(args.points1)
    /\ Det3(Block33(ret.value.rt)) = -1

\* C3 as stated: the number of iterations performed is part of what icp
\* returns, with or without the residual.
C3_ReturnsIterationCount ==
    IcpReturned => "iterations" \in DOMAIN ret.value

\* C3 amended: icp returns the transform alone, or the transform and the
\* residual when return_points_error is set; the number of iterations
\* performed is not part of the result, for any combination of options.
C3_ReturnsTransformOnly ==
    IcpReturned =>
        DOMAIN ret.value =
            IF args.return_points_error THEN {"rt", "points_error"} ELSE {"rt"}

\* a call that stopped at the iteration cap has returned transform and residual
C3_Witness ==
    /\ IcpReturned
    /\ pc = "MaxIterationsReached"
    /\ iterations = args.max_iterations
    /\ iterations > 0
    /\ args.return_points_error
    /\ DOMAIN ret.value = {"rt", "points_error"}

\* C4: no icp call modifies its initial_rt argument (points1 and points2 are
\* never assigned to), and a call that omits initial_rt starts from the
\* identity, whatever calls came before it.
C4_ArgumentsUntouched ==
    /\ default_rt = Eye(4)
    /\ (IcpCalled /\ args.initial_rt # Omitted) => caller_rt = args.initial_rt
    /\ (IcpCalled /\ args.initial_rt = Omitted /\ pc = "Iterating" /\ iterations = 0)
          => rt = Eye(4)

\* C10: icp on the unit cube and its image under the rotation of 90 degrees
\* about z and the shift (1,2,3), both (3, 8) arrays, with shared indices,
\* returns the transform with that rotation and that translation.
C10_CubeRecovered ==
    (IcpCalled /\ args = CubeInput /\ IcpEnded) =>
        /\ ret.raised = "None"
        /\ Block33(ret.value.rt) = RotationZ90
        /\ Col4(ret.value.rt) = Column(1, 2, 3)

-----------------------------------------------------------------------------
(* properties of average_matrices *)

AverageCalled == fn = "average_matrices"

\* the collection is N >= 1 copies of one transform
IsCopies(matrices) ==
    /\ Len(matrices) >= 1
    /\ \A k \in 1..Len(matrices) : matrices[k] = matrices[1]

\* T is a rigid transform held exactly
IsExactlyRigid(T) ==
    /\ T[4] = InUnits(Eye(4))[4]
    /\ \E r \in Rotations3 : Block33(T) = InUnits(r)

\* T is a rigid transform as floating point holds one: its rotation block is
\* that of a rotation up to one unit
IsRigid(T) ==
    /\ T[4] = InUnits(Eye(4))[4]
    /\ \E r \in Rotations3 :
          \A i, j \in 1..3 : Abs(T[i][j] - Unit * r[i][j]) <= 1

\* the arrays a and b are equal up to one unit
Close(a, b) ==
    /\ Shape0(a) = Shape0(b)
    /\ Shape1(a) = Shape1(b)
    /\ \A i \in 1..Shape0(a) : \A j \in 1..Shape1(a) : Abs(a[i][j] - b[i][j]) <= 1

\* C11: average_matrices applied to N >= 1 copies of a rigid transform T
\* returns T (up to one unit) as the mean transform and, with compute_std,
\* the dispersion (0, 0) for rotation and translation.
C11_CopiesAverageToThemselves ==
    (AverageCalled /\ IsCopies(args.matrices) /\ IsRigid(args.matrices[1])) =>
        /\ ret.raised = "None"
        /\ Close(ret.value.average, args.matrices[1])
        /\ args.compute_std =>
              /\ ~ret.value.std[1].nan /\ ret.value.std[1].zero
              /\ ~ret.value.std[2].nan /\ ret.value.std[2].zero

\* with transforms held exactly (rotation blocks orthonormal to the last
\* digit) the mean is the transform itself and the dispersion is (0, 0)
CopiesOfExactTransforms ==
    (AverageCalled /\ IsCopies(args.matrices)
        /\ IsExactlyRigid(args.matrices[1])) =>
        /\ ret.raised = "None"
        /\ ret.value.average = args.matrices[1]
        /\ args.compute_std =>
              /\ ~ret.value.std[1].nan /\ ret.value.std[1].zero
              /\ ~ret.value.std[2].nan /\ ret.value.std[2].zero

\* C12: average_matrices called with an empty collection fails, with or
\* without compute_std, and returns no mean transform (the error is numpy's
\* AxisError, raised by np.mean).
C12_EmptyCollectionFails ==
    (AverageCalled /\ Len(args.matrices) = 0) => ret = Raise("AxisError")

\* the empty collection has been averaged with compute_std and failed
C12_Witness ==
    /\ AverageCalled
    /\ Len(args.matrices) = 0
    /\ args.compute_std
    /\ ret.raised = "AxisError"

-----------------------------------------------------------------------------
(* properties of the loop of icp *)

\* the sum of the squared entries of Identity - m, for a transform m of
\* rotation block r and translation t: |I - r|^2 + |t|^2
Metric(m) ==
      SumTo([i \in 1..3 |->
               SumTo([j \in 1..3 |->
                        ((IF i = j THEN 1 ELSE 0) - m[i][j])
                      * ((IF i = j THEN 1 ELSE 0) - m[i][j])], 3)], 3)
    + m[1][4] * m[1][4] + m[2][4] * m[2][4] + m[3][4] * m[3][4]

\* this step is one pass of the loop, run to its end
PassCompleted ==
    /\ pc = "Iterating"
    /\ iterations' = iterations + 1
    /\ pc' # "Raised"

\* C13: a pass of the loop is run only while fewer than max_iterations have
\* been; pass k composes its incremental transform onto the accumulated one
\* (rt = rt_step @ rt), takes the metric m_k = sum of the squared entries of
\* Identity - rt_step and leaves the loop exactly when |m_(k-1) - m_k| <
\* tolerance (there is no m_0: never at the first pass); otherwise m_k is kept
\* for the next pass.  The loop is also left once max_iterations passes have
\* been run, and the transform returned has the rotation accumulated by the
\* last pass run.
C13_StoppingRule ==
    [][ /\ iterations' = iterations + 1 =>
              pc = "Iterating" /\ iterations < args.max_iterations
        /\ PassCompleted =>
              \E incremental \in compute_best_fit_transformation(
                      pts1(args, rt),
                      TakeColumns(pts2(args), Correspondences(args, rt).value)) :
                 /\ incremental.raised = "None"
                 /\ rt' = MatMul(incremental.value, rt)
                 /\ pc' \in {"Converged", "Iterating"}
                 /\ pc' = "Converged" <=>
                       /\ prev_error.finite
                       /\ Abs(prev_error.value - Metric(incremental.value))
                              < args.tolerance
                 /\ pc' = "Iterating" =>
                       prev_error' = Finite(Metric(incremental.value))
        /\ pc' = "MaxIterationsReached" =>
              /\ pc \in {"Iterating", "MaxIterationsReached"}
              /\ iterations = args.max_iterations
              /\ iterations' = iterations
        /\ (pc = "Iterating" /\ iterations = args.max_iterations /\ pc' # pc) =>
              pc' = "MaxIterationsReached" /\ rt' = rt
        /\ (IcpCalled /\ ret = Pending /\ ret'.raised = "None") =>
              /\ pc \in {"Converged", "MaxIterationsReached"}
              /\ Block33(ret'.value.rt) = Block33(rt)
      ]_vars

\* a call has left the loop at its third pass, on |m_2 - m_3| < tolerance,
\* after a first pass that found the rotation of the target
C13_Witness ==
    /\ IcpCalled
    /\ ret = Pending
    /\ pc = "Converged"
    /\ iterations = 3
    /\ prev_error = Finite(0)
    /\ args.tolerance > 0
    /\ args.initial_rt # Homogenous(RotationZ90, Column(0, 0, 0))
    /\ Block33(rt) = RotationZ90

-----------------------------------------------------------------------------
(* properties of the subsampling of icp *)

\* a call on two homogenous clouds that do not share their indices
SearchCall ==
    /\ IcpCalled
    /\ ~args.share_indices
    /\ Shape0(args.points1) = 4 /\ Shape1(args.points1) >= 1
    /\ Shape0(args.points2) = 4 /\ Shape1(args.points2) >= 1
    /\ args.nb_points1_required >= 1
    /\ args.nb_points2_required >= 1

\* once a pass has been run, the clouds it worked on are the columns 0, k,
\* 2k, ... of points1 and points2, for k the whole part of N / required
Strided ==
    /\ pts1_slice_jumps(args) >= 1
    /\ pts2_slice_jumps(args) >= 1
    /\ Shape1(pts1(args, rt)) =
          (Shape1(args.points1) + pts1_slice_jumps(args) - 1)
              \div pts1_slice_jumps(args)
    /\ Shape1(pts1(args, rt)) >= 1
    /\ \A j \in 1..Shape1(pts2(args)) :
          \A i \in 1..3 :
             pts2(args)[i][j] =
                 args.points2[i][(j - 1)
                     * (Shape1(args.points2) \div args.nb_points2_required) + 1]
    /\ Shape1(pts2(args)) >= 1

\* C14: without shared indices, for every cloud size N >= 1 and every number
\* of points required >= 1, icp takes the points at 0, k, 2k, ... with k the
\* whole part of N / required and goes on to iterate on that non-empty
\* subsample: the call does not fail, and runs a pass when max_iterations
\* allows one.
C14_SubsamplesEveryCloud ==
    SearchCall =>
        /\ ret.raised \in {"Pending", "None"}
        /\ (IcpEnded /\ args.max_iterations >= 1) => iterations >= 1
        /\ searches >= 1 => Strided

\* when no more points are required than the clouds have, the call does
\* subsample with the jumps k >= 1 and iterate
SubsamplesWithinSize ==
    (SearchCall /\ args.nb_points1_required <= Shape1(args.points1)
                /\ args.nb_points2_required <= Shape1(args.points2)) =>
        /\ ret.raised \in {"Pending", "None"}
        /\ (IcpEnded /\ args.max_iterations >= 1) => iterations >= 1
        /\ searches >= 1 => Strided

-----------------------------------------------------------------------------
(* properties of the finalization of icp *)

\* the centroid of the moving cloud, a (3, 1) column
Centroid(points) ==
    [i \in 1..3 |-> <<SumTo(points[i], Shape1(points)) \div Shape1(points)>>]

\* C15: when it returns, icp changes only the translation of the accumulated
\* transform A = (R_A, t_A): the transform returned has the rotation R_A and
\* the translation t_A - R_A c, for c the centroid of points1, so that it
\* carries every point p of points1 to A (p - c).
C15_ReprojectsTranslation ==
    [][ (IcpCalled /\ ret = Pending /\ ret'.raised = "None") =>
            LET c == Centroid(args.points1)
                output == ret'.value.rt
            IN  /\ Block33(output) = Block33(rt)
                /\ output[4] = rt[4]
                /\ Col4(output) = SubColumn(Col4(rt), MatMul(Block33(rt), c))
                /\ \A j \in 1..Shape1(args.points1) :
                      LET p == [i \in 1..3 |-> <<args.points1[i][j]>>]
                      IN  AddColumn(MatMul(Block33(output), p), Col4(output)) =
                              AddColumn(MatMul(Block33(rt), SubColumn(p, c)),
                                        Col4(rt))
      ]_vars

\* a call on a cloud whose centroid is not the origin has returned the
\* rotation and the translation of its target
C15_Witness ==
    /\ IcpReturned
    /\ Centroid(args.points1) = Column(2, 2, 2)
    /\ Block33(ret.value.rt) = RotationZ90
    /\ Col4(ret.value.rt) = Column(1, 2, 3)
    /\ Image(Block33(ret.value.rt), Col4(ret.value.rt), Rows3(args.points1))
           = Rows3(args.points2)

-----------------------------------------------------------------------------
(* properties of the shared indices of icp *)

\* the sum over i of the squared distances of the moving point i, carried by
\* the transform m, to the reference point i
IndexWiseError(m, points1, points2) ==
    LET moved == Image(Block33(m), Col4(m), Rows3(points1))
    IN  SumTo([i \in 1..Shape1(points1) |-> SqDist(moved, i, points2, i)],
              Shape1(points1))

\* C16: with share_indices, no pass of an icp call invokes nearest_neighbor,
\* the residual pass included: moving point i is paired with reference point
\* i, and the residual is taken over these pairs.
C16_NeverSearches ==
    (IcpCalled /\ args.share_indices /\ Shape0(args.points1) = 4) =>
        /\ searches = 0
        /\ (IcpReturned /\ args.return_points_error) =>
              /\ ret.value.points_error.count = Shape1(args.points1)
              /\ ret.value.points_error.sum_of_squares =
                    IndexWiseError(ret.value.rt, args.points1, args.points2)

\* with share_indices, the passes of the loop do not search: nearest_neighbor
\* is invoked once, by the residual pass, and not at all without it
SharedLoopNeverSearches ==
    (IcpCalled /\ args.share_indices) =>
        searches = IF IcpReturned /\ args.return_points_error THEN 1 ELSE 0

-----------------------------------------------------------------------------
(* properties of from_euler *)

EulerCalled == fn = "from_euler"

RECURSIVE RotationProduct(_, _, _)
\* the product of the first k axis rotations, in sequence order
RotationProduct(angles, sequence, k) ==
    IF k = 0 THEN Eye(3)
    ELSE MatMul(RotationProduct(angles, sequence, k - 1),
                AxisRotation(sequence[k], angles[k]))

\* C17: for every angle triple and every axis sequence over {x, y, z}, of
\* length 0 and of length 2 or more included, from_euler with homogenous=True
\* returns the 4x4 transform of zero translation whose rotation block is the
\* product of all the axis rotations in sequence order, the matrix it returns
\* with homogenous=False.
C17_HomogenousIsTheProduct ==
    (EulerCalled /\ args.homogenous) =>
        /\ ret.raised = "None"
        /\ IsTransform(ret.value)
        /\ Col4(ret.value) = Column(0, 0, 0)
        /\ Block33(ret.value) =
              RotationProduct(args.angles, args.sequence,
                              ZipLen(args.angles, args.sequence))
        /\ Return(Block33(ret.value)) =
              from_euler(args.angles, args.sequence, FALSE)

\* with homogenous=False from_euler returns the product of the axis
\* rotations; with homogenous=True it fails on the empty sequence and
\* returns the last axis rotation alone otherwise
EulerReturnsProductOrLast ==
    EulerCalled =>
        LET n == ZipLen(args.angles, args.sequence)
        IN  IF ~args.homogenous
            THEN ret = Return(RotationProduct(args.angles, args.sequence, n))
            ELSE IF n = 0
            THEN ret = Raise("UnboundLocalError")
            ELSE ret = Return(Homogenous(
                           AxisRotation(args.sequence[n], args.angles[n]),
                           Column(0, 0, 0)))

=============================================================================
